---- MODULE Spec2Model ----
(***************************************************************************)
(* Verification model of the EasyDeL attention engine: the key/value cache *)
(* slot kept by FlaxAttentionModule._concatenate_to_cache (and its older   *)
(* copy in FlaxPhiAttention), the 8-bit row codec the quantized cache uses,*)
(* the FlashAttention dispatch layer, the block sizes FlashAttention and   *)
(* SplashAttn hand to their kernels, quantize_8bit/dequantize_8bit as pure *)
(* functions of a row and its dtype, the additive attention bias built     *)
(* from a mask, and the functions of whole arrays: the head repetition     *)
(* helpers, the head grouping of the reference attention, and the uint8    *)
(* codec quantize_kv_cache/dequantize_kv_cache.                            *)
(*                                                                         *)
(* Tensors are modelled along the sequence axis: a key/value tensor is a   *)
(* sequence of rows, a row being the head_dim vector of one position (the  *)
(* batch and head axes are carried along unchanged by every operation      *)
(* modelled here).  Numbers are exact rationals with denominator QMax, in  *)
(* units of 1e-5: the integer n stands for the real value n/127 * 1e-5.    *)
(***************************************************************************)
EXTENDS Integers, Sequences, FiniteSets, TLC

VARIABLES
    config,         \* self.config: module, quantize_kv_cache, use_sharded_kv_caching
    is_initialized, \* self.has_variable("cache", "cached_key")
    cached_key,     \* cache variable cached_key (float rows, or encoded rows)
    cached_value,   \* cache variable cached_value
    cache_index,    \* cache variable cache_index: the write cursor
    call,           \* the last call of _concatenate_to_cache: inputs and pre-state
    ret,            \* what that call returned: key, value, attention_mask
    host_backend,   \* get_backend().platform of the process
    force_mha,      \* os.environ FORCE_MHA is one of "true", "1", "on"
    attention,      \* the FlashAttention instance the caller holds (its config), or None
    fa_call,        \* the last FlashAttention operation: constructor or __call__, and its inputs
    fa_ret,         \* what that operation returned or raised
    metadata,       \* SplashAttn.metadata: blocksize_q, blocksize_k
    splash_call,    \* the last SplashAttn forward_* call and its inputs
    splash_ret,     \* what that call handed to its kernel, or raised
    weight,         \* the row x handed to quantize_8bit, and its dtype
    quantized,      \* what quantize_8bit returned for it: qweight, qscale
    dequantized,    \* what dequantize_8bit returned for that encoding
    requantized,    \* what quantize_8bit returned for the decoded row
    bias_call,      \* the last construction of an attention bias and its inputs
    attention_bias, \* the bias it built: a matrix, one row per query position
    attn_weights,   \* the softmax weights the dense strategy computed with it
    array_call,     \* the last call of a function of whole arrays, and its inputs
    array_ret       \* the array that call returned, or the error it raised

cache_vars == <<config, is_initialized, cached_key, cached_value, cache_index, call, ret>>
flash_vars == <<host_backend, force_mha, attention, fa_call, fa_ret>>
splash_vars == <<metadata, splash_call, splash_ret>>
codec_vars == <<weight, quantized, dequantized, requantized>>
bias_vars == <<bias_call, attention_bias, attn_weights>>
array_vars == <<array_call, array_ret>>
vars == <<cache_vars, flash_vars, splash_vars, codec_vars, bias_vars, array_vars>>

\* what the operations of one component leave alone
outside_cache == <<flash_vars, splash_vars, codec_vars, bias_vars, array_vars>>
outside_flash == <<cache_vars, splash_vars, codec_vars, bias_vars, array_vars>>
outside_splash == <<cache_vars, flash_vars, codec_vars, bias_vars, array_vars>>
outside_codec == <<cache_vars, flash_vars, splash_vars, bias_vars, array_vars>>
outside_bias == <<cache_vars, flash_vars, splash_vars, codec_vars, array_vars>>
outside_array == <<cache_vars, flash_vars, splash_vars, codec_vars, bias_vars>>

----------------------------------------------------------------------------
(* Bounds of the model *)

\* mesh.shape["sp"]: the shards of the sequence axis
NumShards == 2
\* positions held by one shard
ShardLen == 2
\* longest query handed to one append
MaxNew == 2
\* appends are explored while the cursor is below max_length + Overshoot
Overshoot == 1
\* head counts 1..MaxHeads are explored, besides 8, 30 and 32
MaxHeads == 2

\* depth_per_head: the length of one row
HeadDim == 2

\* the length of a row handed to quantize_8bit
RowLen == 2
\* key positions of an attention mask
BiasLen == 4
\* repetition factors 1..MaxRep of the key/value heads
MaxRep == 2
\* batch sizes 1..MaxBatch and sequence lengths 1..MaxSeq of whole arrays
MaxBatch == 2
MaxSeq == 3

\* key.shape[1] of the initializing call
MaxLength == NumShards * ShardLen

(* Program constants of the 8-bit codec *)
QMax == 127
QMin == -128
\* the floor 1e-5 of max_val, in units of 1e-5/127
FloorMaxVal == 127

----------------------------------------------------------------------------
(* Helpers *)

Abs(x) == IF x < 0 THEN -x ELSE x
Min2(a, b) == IF a < b THEN a ELSE b
Max2(a, b) == IF a > b THEN a ELSE b

RECURSIVE RowAbsMax(_, _)
RowAbsMax(row, d) ==
    IF d = 0 THEN 0 ELSE Max2(Abs(row[d]), RowAbsMax(row, d - 1))

\* jnp.round of the rational a/b (b > 0): round half to even
RoundHalfEven(a, b) ==
    LET f == a \div b
        r == a % b
    IN  IF 2 * r < b THEN f
        ELSE IF 2 * r > b THEN f + 1
        ELSE IF f % 2 = 0 THEN f ELSE f + 1

Clip(x, lo, hi) == Max2(lo, Min2(x, hi))

ZeroRow == [d \in 1..HeadDim |-> 0]
Zeros_Ones(len) == [p \in 1..len |-> [d \in 1..HeadDim |-> QMax]]
Zeros(len) == [p \in 1..len |-> ZeroRow]

\* the rows a caller appends: token t has its own key row and value row
KeyRow(t) == [d \in 1..HeadDim |-> IF d = 1 THEN QMax * t ELSE QMax * 3]
ValueRow(t) == [d \in 1..HeadDim |-> IF d = 1 THEN -(QMax * t) ELSE QMax * 5]
Tokens == {1, 2}

\* caller masks over the key axis: no padding, or the first position is padding
Masks == {[p \in 1..MaxLength |-> p > h] : h \in {0, 1}}

----------------------------------------------------------------------------
(* 8-bit row codec *)

\* quantize_8bit on one row; scale is kept as max_val (= 127 * qscale)
QuantizeRow(row) ==
    LET max_val == Max2(RowAbsMax(row, HeadDim), FloorMaxVal)
    IN  [q |-> [d \in 1..HeadDim |->
                    Clip(RoundHalfEven(row[d] * QMax, max_val), QMin, QMax)],
         max_val |-> max_val]

\* dequantize_8bit on one row: quants * scales
DequantizeRow(enc) ==
    [d \in 1..HeadDim |-> (enc.q[d] * enc.max_val) \div QMax]

Quantize(x) == [p \in 1..Len(x) |-> QuantizeRow(x[p])]
Dequantize(e) == [p \in 1..Len(e) |-> DequantizeRow(e[p])]

----------------------------------------------------------------------------
(* quantize_8bit and dequantize_8bit on rows of a given dtype.  Here a      *)
(* number is an exact rational [n, d] in units of 2^-27, and a dtype of    *)
(* reduced precision rounds it to its significant bits; float32 is finer   *)
(* than every number of the model and is kept exact.                       *)

Dtypes == {"float32", "bfloat16"}
\* significant bits of a bfloat16
BF16Bits == 8
\* the floor 1e-5 of max_val in units of 2^-27 (1e-5 * 2^27 = 1342.18)
MinMaxVal == 1342

RECURSIVE Pow2(_)
Pow2(k) == IF k = 0 THEN 1 ELSE 2 * Pow2(k - 1)

Rat(n, d) == [n |-> n, d |-> d]
RatLeq(a, b) == a.n * b.d <= b.n * a.d
RatEq(a, b) == a.n * b.d = b.n * a.d

\* the binary exponent of n/d >= 2^bits, and of n/d < 2^(bits-1)
RECURSIVE ShiftDown(_, _, _)
ShiftDown(n, d, bits) ==
    IF n < d * Pow2(bits) THEN 0 ELSE 1 + ShiftDown(n, 2 * d, bits)
RECURSIVE ShiftUp(_, _, _)
ShiftUp(n, d, bits) ==
    IF n >= d * Pow2(bits - 1) THEN 0 ELSE 1 + ShiftUp(2 * n, d, bits)

\* r rounded to the nearest number of `bits` significant bits, half to even
RoundSig(r, bits) ==
    IF r.n = 0 THEN r
    ELSE LET a == Abs(r.n)
             sgn == IF r.n < 0 THEN -1 ELSE 1
             down == ShiftDown(a, r.d, bits)
             up == ShiftUp(a, r.d, bits)
         IN  IF down > 0
             THEN Rat(sgn * RoundHalfEven(a, r.d * Pow2(down)) * Pow2(down), 1)
             ELSE Rat(sgn * RoundHalfEven(a * Pow2(up), r.d), Pow2(up))

\* .astype(dtype), and the rounding of a result computed in dtype
astype(r, dtype) == IF dtype = "bfloat16" THEN RoundSig(r, BF16Bits) ELSE r

clip_max_val_Tiny(max_val) == Max2(max_val, 1)

\* jnp.clip(max_val, min=1e-5)
clip_max_val(max_val) == Max2(max_val, MinMaxVal)

quantize_8bit_Over128(x, dtype) ==
    LET max_val == clip_max_val(RowAbsMax(x, Len(x)))
    IN  [qweight |-> [i \in 1..Len(x) |->
                        Clip(RoundHalfEven(x[i] * (QMax + 1), max_val), QMin, QMax)],
         qscale |-> astype(Rat(max_val, QMax), dtype),
         dtype |-> dtype]

quantize_8bit_Truncating(x, dtype) ==
    LET max_val == clip_max_val(RowAbsMax(x, Len(x)))
    IN  [qweight |-> [i \in 1..Len(x) |->
                        Clip((x[i] * QMax) \div max_val, QMin, QMax)],
         qscale |-> astype(Rat(max_val, QMax), dtype),
         dtype |-> dtype]

\* quantize_8bit on one row x of the given dtype: the arithmetic is done in
\* float32 and only the returned scale is cast back to the dtype of x
quantize_8bit(x, dtype) ==
    LET max_val == clip_max_val(RowAbsMax(x, Len(x)))
    IN  [qweight |-> [i \in 1..Len(x) |->
                        Clip(RoundHalfEven(x[i] * QMax, max_val), QMin, QMax)],
         qscale |-> astype(Rat(max_val, QMax), dtype),
         dtype |-> dtype]

dequantize_8bit_Unsigned(enc) ==
    [i \in 1..Len(enc.qweight) |->
        astype(Rat((enc.qweight[i] - QMin) * enc.qscale.n, enc.qscale.d), enc.dtype)]

\* dequantize_8bit: quants * scales, an int8 times a scale of the dtype,
\* which gives a result of that dtype
dequantize_8bit(enc) ==
    [i \in 1..Len(enc.qweight) |->
        astype(Rat(enc.qweight[i] * enc.qscale.n, enc.qscale.d), enc.dtype)]

NotQuantized == [qweight |-> <<>>]

\* the caller quantizes its row
Quantize8bit ==
    /\ quantized.qweight = <<>>
    /\ quantized' = quantize_8bit(weight.x, weight.dtype)
    /\ UNCHANGED <<weight, dequantized, requantized, outside_codec>>

\* the caller decodes what quantize_8bit returned
Dequantize8bit ==
    /\ quantized.qweight # <<>>
    /\ dequantized = <<>>
    /\ dequantized' = dequantize_8bit(quantized)
    /\ UNCHANGED <<weight, quantized, requantized, outside_codec>>

RECURSIVE Gcd(_, _)
Gcd(a, b) == IF b = 0 THEN a ELSE Gcd(b, a % b)

\* n/d in lowest terms
Reduced(n, d) ==
    LET g == Gcd(Abs(n), d)
    IN  Rat(n \div g, d \div g)

RatAbs(r) == Rat(Abs(r.n), r.d)
RatMax(a, b) == IF RatLeq(a, b) THEN b ELSE a

RECURSIVE RatRowAbsMax(_, _)
RatRowAbsMax(row, d) ==
    IF d = 0 THEN Rat(0, 1) ELSE RatMax(RatAbs(row[d]), RatRowAbsMax(row, d - 1))

\* quantize_8bit on a row of numbers of the dtype that are not whole units,
\* as a decoded row is
quantize_8bit_rat(x, dtype) ==
    LET max_val == RatMax(RatRowAbsMax(x, Len(x)), Rat(MinMaxVal, 1))
        ratio(i) == Reduced(x[i].n * max_val.d, x[i].d * max_val.n)
    IN  [qweight |-> [i \in 1..Len(x) |->
                        Clip(RoundHalfEven(ratio(i).n * QMax, ratio(i).d),
                             QMin, QMax)],
         qscale |-> astype(Reduced(max_val.n, max_val.d * QMax), dtype),
         dtype |-> dtype]

\* the caller encodes the decoded row again
Requantize8bit ==
    /\ dequantized # <<>>
    /\ requantized = NotQuantized
    /\ requantized' = quantize_8bit_rat(dequantized, quantized.dtype)
    /\ UNCHANGED <<weight, quantized, dequantized, outside_codec>>

\* the numbers a row is drawn from, all exact in bfloat16: zero, a number
\* below the floor, ties of the rounding (8 and 24 against 2032 = 127 * 16),
\* and a pair (2128 against 2208) whose product with a bfloat16 scale is not
\* a bfloat16
RowValues == {-1344, -111, -8, 0, 5, 8, 24, 111, 1344, 2032, 2128, 2208}
Rows == [1..RowLen -> RowValues]

CodecIdle ==
    /\ weight = [x |-> [i \in 1..RowLen |-> 0], dtype |-> "float32"]
    /\ quantized = NotQuantized
    /\ dequantized = <<>>
    /\ requantized = NotQuantized

CodecNext == Quantize8bit \/ Dequantize8bit \/ Requantize8bit

----------------------------------------------------------------------------
(* Attention bias: how a mask becomes an additive bias, and the softmax of *)
(* the dense strategy over it.  A float here is finite (a small integer),  *)
(* the most negative finite value of its dtype, minus infinity, or NaN.    *)

Fin(v) == [k |-> "fin", v |-> v]
FinfoMin == [k |-> "min", v |-> 0]
NegInf == [k |-> "-inf", v |-> 0]
NaN == [k |-> "nan", v |-> 0]
BiasDtypes == {"float32", "bfloat16", "float16"}

phi_attention_bias_NegInf(attention_mask) ==
    [j \in 1..Len(attention_mask) |->
        IF attention_mask[j] > 0 THEN Fin(0) ELSE NegInf]

\* lax.select(attention_mask > 0, 0.0, finfo(dtype).min) of FlaxPhiAttention
phi_attention_bias(attention_mask) ==
    [j \in 1..Len(attention_mask) |->
        IF attention_mask[j] > 0 THEN Fin(0) ELSE FinfoMin]

\* FlaxPhiAttention builds the bias of one query row from its 0/1 mask
PhiAttentionBias(attention_mask, dtype) ==
    /\ bias_call' = [op |-> "phi", mask |-> attention_mask, dtype |-> dtype]
    /\ attention_bias' = <<phi_attention_bias(attention_mask)>>
    /\ attn_weights' = <<>>
    /\ UNCHANGED outside_bias

\* mask_loop of create_attention_mask for i = 1 .. len(cu_seqlens) - 1
\* (cu_seqlens is 1-based here, so step i reads cu_seqlens[i], cu_seqlens[i+1])
RECURSIVE mask_loop(_, _, _)
mask_loop(i, cu_seqlens, mask) ==
    IF i = 0 THEN mask
    ELSE LET before == mask_loop(i - 1, cu_seqlens, mask)
             start == cu_seqlens[i]
             end == cu_seqlens[i + 1]
         IN  [r \in 1..Len(before) |-> [c \in 1..Len(before) |->
                IF start < r /\ r <= end /\ start < c /\ c <= end
                THEN Fin(0) ELSE before[r][c]]]

\* create_attention_mask(q, cu_seqlens) of qwen2_vl
create_attention_mask(cu_seqlens) ==
    LET seq_length == IF Len(cu_seqlens) > 0 THEN cu_seqlens[Len(cu_seqlens)] ELSE 0
        full == [r \in 1..seq_length |-> [c \in 1..seq_length |-> FinfoMin]]
    IN  IF Len(cu_seqlens) > 0
        THEN mask_loop(Len(cu_seqlens) - 1, cu_seqlens, full)
        ELSE full

\* the vision attention of qwen2_vl builds its block-diagonal bias
QwenAttentionMask(cu_seqlens, dtype) ==
    /\ bias_call' = [op |-> "qwen2_vl", mask |-> cu_seqlens, dtype |-> dtype]
    /\ attention_bias' = create_attention_mask(cu_seqlens)
    /\ attn_weights' = <<>>
    /\ UNCHANGED outside_bias

\* float addition of a score and a bias entry: the most negative finite
\* value absorbs a finite score (scores are below half its last place), and
\* twice that value overflows
fadd(a, b) ==
    IF a.k = "nan" \/ b.k = "nan" THEN NaN
    ELSE IF a.k = "-inf" \/ b.k = "-inf" THEN NegInf
    ELSE IF a.k = "min" /\ b.k = "min" THEN NegInf
    ELSE IF a.k = "min" \/ b.k = "min" THEN FinfoMin
    ELSE Fin(a.v + b.v)

\* a - m, m being the maximum of the row a is taken from
fsub(a, m) ==
    IF a.k = "nan" \/ m.k = "nan" THEN NaN
    ELSE IF a.k = "-inf" THEN (IF m.k = "-inf" THEN NaN ELSE NegInf)
    ELSE IF a.k = "min" THEN (IF m.k = "min" THEN Fin(0) ELSE FinfoMin)
    ELSE Fin(a.v - m.v)

fless(a, b) ==
    \/ a.k = "-inf" /\ b.k # "-inf"
    \/ a.k = "min" /\ b.k = "fin"
    \/ a.k = "fin" /\ b.k = "fin" /\ a.v < b.v

RECURSIVE RowMax(_, _)
RowMax(row, n) ==
    IF n = 1 THEN row[1]
    ELSE LET m == RowMax(row, n - 1)
         IN  IF fless(m, row[n]) THEN row[n] ELSE m

\* exp of a shifted logit: NaN stays NaN, exp of minus infinity and of the
\* most negative finite value is 0, exp(v) of a finite v <= 0 is kept as v
fexp(a) ==
    IF a.k = "nan" THEN [k |-> "nan", v |-> 0]
    ELSE IF a.k = "fin" THEN [k |-> "exp", v |-> a.v]
    ELSE [k |-> "zero", v |-> 0]

\* softmax of one row of logits, up to the normaliser the elements share:
\* exp(logit - max(logits)) of every element
softmax(logits) ==
    LET m == RowMax(logits, Len(logits))
    IN  [j \in 1..Len(logits) |-> fexp(fsub(logits[j], m))]

\* the scores of one query row against the key positions
ScoreKinds == {"flat", "ramp"}
Score(kind, j) == IF kind = "flat" THEN Fin(0) ELSE Fin(j - 2)

\* the dense strategy: scores plus bias, then softmax over the key axis
DenseSoftmax(kind) ==
    /\ attention_bias # <<>>
    /\ attn_weights' =
        [r \in 1..Len(attention_bias) |->
            softmax([j \in 1..Len(attention_bias[r]) |->
                        fadd(Score(kind, j), attention_bias[r][j])])]
    /\ UNCHANGED <<bias_call, attention_bias, outside_bias>>

\* 0/1 masks of one query row over the key positions
BiasMasks == [1..BiasLen -> {0, 1}]
\* cumulative sequence lengths: 0 followed by increasing ends up to BiasLen
RECURSIVE CuSeqlens(_)
CuSeqlens(n) ==
    IF n = 0 THEN {<<0>>}
    ELSE CuSeqlens(n - 1) \cup {Append(c, n) : c \in CuSeqlens(n - 1)}

BiasNext ==
    \/ \E m \in BiasMasks, dt \in BiasDtypes : PhiAttentionBias(m, dt)
    \/ \E c \in CuSeqlens(BiasLen), dt \in BiasDtypes : QwenAttentionMask(c, dt)
    \/ \E kind \in ScoreKinds : DenseSoftmax(kind)

----------------------------------------------------------------------------
(* Tensor primitives *)

\* lax.dynamic_update_slice along the sequence axis: the start index is
\* clamped so that the update fits inside the operand
dynamic_update_slice_AtZero(operand, update, start) ==
    [p \in 1..Len(operand) |->
        IF p <= Len(update) THEN update[p] ELSE operand[p]]

dynamic_update_slice(operand, update, start) ==
    LET s == Clip(start, 0, Len(operand) - Len(update))
    IN  [p \in 1..Len(operand) |->
            IF s < p /\ p <= s + Len(update) THEN update[p - s] ELSE operand[p]]

\* flax.linen.combine_masks: logical and
combine_masks(a, b) == [p \in 1..Len(a) |-> a[p] /\ b[p]]

\* jnp.arange(max_length) < cur_index + num_updated_cache_vectors
pad_mask(max_length, cur_index, n) ==
    [p \in 1..max_length |-> (p - 1) < cur_index + n]

\* the float view of a cache variable (an Array8Bit is materialized when a
\* lax primitive is applied to it)
Materialize(x) == IF config.quantize_kv_cache THEN Dequantize(x) ELSE x

\* what is assigned to a cache variable
Store(x) == IF config.quantize_kv_cache THEN Quantize(x) ELSE x

----------------------------------------------------------------------------
(* Sharded single-token update: shard_map of fn over the "sp" axis *)

sp_size(max_length) == max_length \div NumShards

\* the local slice shard_map hands to shard axis_index
ShardSlice(x, axis_index) ==
    SubSeq(x, axis_index * sp_size(Len(x)) + 1, (axis_index + 1) * sp_size(Len(x)))

ShardOwns_Inclusive(max_length, cur_index, axis_index) ==
    LET local == cur_index - axis_index * sp_size(max_length)
    IN  local >= 0 /\ local <= sp_size(max_length)

\* the local predicate of fn
ShardOwns(max_length, cur_index, axis_index) ==
    LET local == cur_index - axis_index * sp_size(max_length)
    IN  local >= 0 /\ local < sp_size(max_length)

ShardFn_Neighbour(cached, new, cur_index, axis_index) ==
    LET local == cur_index - axis_index * sp_size(Len(cached))
        slice == ShardSlice(cached, axis_index)
    IN  IF ShardOwns(Len(cached), cur_index, axis_index)
        THEN [slice EXCEPT ![local + 1] = new[Len(new)]]
        ELSE ShardSlice(cached, (axis_index + 1) % NumShards)

ShardFn_GlobalIndex(cached, new, cur_index, axis_index) ==
    LET slice == ShardSlice(cached, axis_index)
    IN  IF cur_index >= 0 /\ cur_index < sp_size(Len(cached))
        THEN [slice EXCEPT ![cur_index + 1] = new[Len(new)]]
        ELSE slice

ShardFn_Broadcast(cached, new, cur_index, axis_index) ==
    [ShardSlice(cached, axis_index)
        EXCEPT ![(cur_index % sp_size(Len(cached))) + 1] = new[Len(new)]]

\* fn on one shard: _cached.at[:, _cur_index].set(_new[:, -1]) if the local
\* index is in range, the local slice unchanged otherwise
ShardFn(cached, new, cur_index, axis_index) ==
    LET local == cur_index - axis_index * sp_size(Len(cached))
        slice == ShardSlice(cached, axis_index)
    IN  IF ShardOwns(Len(cached), cur_index, axis_index)
        THEN [slice EXCEPT ![local + 1] = new[Len(new)]]
        ELSE slice

\* out_specs: the shards' results laid side by side along the sequence axis
ShardedUpdate(cached, new, cur_index) ==
    LET sp == sp_size(Len(cached))
    IN  [p \in 1..(NumShards * sp) |->
            ShardFn(cached, new, cur_index, (p - 1) \div sp)[((p - 1) % sp) + 1]]

----------------------------------------------------------------------------
(* The cache slot *)

NoCall == [op |-> "none"]
NoRet == [error |-> "none"]

Configs ==
    {[module |-> "FlaxAttentionModule", quantize_kv_cache |-> q,
      use_sharded_kv_caching |-> s] : q \in BOOLEAN, s \in BOOLEAN}
    \cup {[module |-> "FlaxPhiAttention", quantize_kv_cache |-> FALSE,
           use_sharded_kv_caching |-> FALSE]}

CacheInit ==
    /\ config \in Configs
    /\ is_initialized = FALSE
    /\ cached_key = <<>>
    /\ cached_value = <<>>
    /\ cache_index = 0
    /\ call = NoCall
    /\ ret = NoRet

\* the branch of FlaxAttentionModule._concatenate_to_cache an append takes
PathOf(cfg, n) ==
    IF n = 1 /\ cfg.use_sharded_kv_caching /\ ~cfg.quantize_kv_cache
    THEN "sharded"
    ELSE "dense"

\* first call: the cache variables are created, nothing is written
InitCache(t, mask) ==
    LET key == [p \in 1..MaxLength |-> KeyRow(t)]
        value == [p \in 1..MaxLength |-> ValueRow(t)]
    IN  /\ ~is_initialized
        /\ is_initialized' = TRUE
        /\ cached_key' = Store(Zeros(Len(key)))
        /\ cached_value' = Store(Zeros(Len(value)))
        /\ cache_index' = 0
        /\ call' = [op |-> "init", path |-> "init", cur_index |-> 0,
                    n |-> Len(key), key |-> key, value |-> value, mask |-> mask,
                    pre_key |-> <<>>, pre_value |-> <<>>]
        /\ ret' = [error |-> "none", key |-> key, value |-> value, mask |-> mask]
        /\ UNCHANGED <<config, outside_cache>>

Merged_RoundTrip(cached, new, cur_index, path) ==
    IF path = "sharded"
    THEN ShardedUpdate(cached, new, cur_index)
    ELSE Materialize(Store(dynamic_update_slice(Materialize(cached), new, cur_index)))

\* the merged key (or value) an append computes
Merged(cached, new, cur_index, path) ==
    IF path = "sharded"
    THEN ShardedUpdate(cached, new, cur_index)
    ELSE dynamic_update_slice(Materialize(cached), new, cur_index)

\* the attention mask an append returns
MaskOut(mask, max_length, cur_index, n, path) ==
    IF path = "sharded"
    THEN mask
    ELSE combine_masks(pad_mask(max_length, cur_index, n), mask)

NextIndex_One(cur_index, n) == cur_index + 1

\* the value assigned to cache_index
NextIndex(cur_index, n) == cur_index + n

\* FlaxAttentionModule._concatenate_to_cache on an initialized slot
ConcatenateToCache(toks, mask) ==
    LET n == Len(toks)
        key == [p \in 1..n |-> KeyRow(toks[p])]
        value == [p \in 1..n |-> ValueRow(toks[p])]
        max_length == Len(cached_key)
        cur_index == cache_index
        path == PathOf(config, n)
        mkey == Merged(cached_key, key, cur_index, path)
        mvalue == Merged(cached_value, value, cur_index, path)
    IN  /\ config.module = "FlaxAttentionModule"
        /\ is_initialized
        /\ cache_index < max_length + Overshoot
        /\ cached_key' = Store(mkey)
        /\ cached_value' = Store(mvalue)
        /\ cache_index' = NextIndex(cache_index, n)
        /\ call' = [op |-> "append", path |-> path, cur_index |-> cur_index,
                    n |-> n, key |-> key, value |-> value, mask |-> mask,
                    pre_key |-> cached_key, pre_value |-> cached_value]
        /\ ret' = [error |-> "none", key |-> mkey, value |-> mvalue,
                   mask |-> MaskOut(mask, max_length, cur_index, n, path)]
        /\ UNCHANGED <<config, is_initialized, outside_cache>>

\* FlaxPhiAttention._concatenate_to_cache on an initialized slot
PhiConcatenateToCache(toks, mask) ==
    LET n == Len(toks)
        key == [p \in 1..n |-> KeyRow(toks[p])]
        value == [p \in 1..n |-> ValueRow(toks[p])]
        max_length == Len(cached_key)
        cur_index == cache_index
        mkey == dynamic_update_slice(cached_key, key, cur_index)
        mvalue == dynamic_update_slice(cached_value, value, cur_index)
    IN  /\ config.module = "FlaxPhiAttention"
        /\ is_initialized
        /\ cache_index < max_length + Overshoot
        /\ cached_key' = mkey
        /\ cached_value' = mvalue
        /\ cache_index' = NextIndex(cache_index, n)
        /\ call' = [op |-> "append", path |-> "phi", cur_index |-> cur_index,
                    n |-> n, key |-> key, value |-> value, mask |-> mask,
                    pre_key |-> cached_key, pre_value |-> cached_value]
        /\ ret' = [error |-> "none", key |-> mkey, value |-> mvalue,
                   mask |-> combine_masks(pad_mask(max_length, cur_index, n), mask)]
        /\ UNCHANGED <<config, is_initialized, outside_cache>>

\* the new tokens of one append: n consecutive tokens starting with token t
TokenSeqs ==
    {[p \in 1..n |-> ((t + p - 2) % Cardinality(Tokens)) + 1] :
        t \in Tokens, n \in 1..MaxNew}

CacheNext ==
    \/ \E t \in Tokens, mask \in Masks : InitCache(t, mask)
    \/ \E toks \in TokenSeqs, mask \in Masks : ConcatenateToCache(toks, mask)
    \/ \E toks \in TokenSeqs, mask \in Masks : PhiConcatenateToCache(toks, mask)

----------------------------------------------------------------------------
(* FlashAttention: configuration, validation and dispatch *)

None == "None"
\* no FlashAttention object
NoInstance == [backend |-> None, platform |-> None]
Backends == {"gpu", "tpu", "cpu"}           \* class Backend
Platforms == {"triton", "pallas", "jax"}    \* class Platform

\* AttentionConfig._default_platform
default_platform(backend) ==
    CASE backend = "gpu" -> "triton"
      [] backend = "cpu" -> "jax"
      [] backend = "tpu" -> "pallas"
      [] OTHER -> None

\* the default of AttentionConfig.blocksize_q and blocksize_k
DefaultBlock == 128

\* AttentionConfig(...) with __post_init__
AttentionConfig(blocksize_q, blocksize_k, backend, platform) ==
    LET b == IF backend = None THEN host_backend ELSE backend
    IN  [blocksize_q |-> blocksize_q,
         blocksize_k |-> blocksize_k,
         backend |-> b,
         platform |-> IF platform = None THEN default_platform(b) ELSE platform]

valid_combinations_NoReference ==
    {<<"gpu", "triton">>, <<"gpu", "pallas">>, <<"cpu", "jax">>, <<"tpu", "pallas">>}

\* the table of FlashAttention._validate_config
valid_combinations ==
    {<<"gpu", "triton">>, <<"gpu", "pallas">>, <<"gpu", "jax">>,
     <<"cpu", "jax">>, <<"tpu", "jax">>, <<"tpu", "pallas">>}

validate_config_Fallback(cfg) ==
    IF <<cfg.backend, cfg.platform>> \in valid_combinations
    THEN [error |-> "none", instance |-> cfg]
    ELSE [error |-> "none",
          instance |-> [cfg EXCEPT !.platform = default_platform(cfg.backend)]]

\* FlashAttention.__init__ with _validate_config: the instance, or ValueError
validate_config(cfg) ==
    IF <<cfg.backend, cfg.platform>> \in valid_combinations
    THEN [error |-> "none", instance |-> cfg]
    ELSE [error |-> "ValueError", instance |-> NoInstance]

NoKernel == [kernel |-> None, log |-> <<>>]

\* FlashAttention(AttentionConfig(blocksize_q=..., blocksize_k=...,
\* backend=..., platform=...)); a config of None is AttentionConfig() with
\* the default block sizes and both other fields None
Construct(blocksize_q, blocksize_k, backend, platform) ==
    LET made == validate_config(
                    AttentionConfig(blocksize_q, blocksize_k, backend, platform))
    IN  /\ fa_call' = [op |-> "construct", backend |-> backend, platform |-> platform,
                       blocksize_q |-> blocksize_q, blocksize_k |-> blocksize_k]
        /\ fa_ret' = [error |-> made.error, instance |-> made.instance] @@ NoKernel
        /\ attention' = (IF made.error = "none" THEN made.instance ELSE attention)
        /\ UNCHANGED <<host_backend, force_mha, outside_flash>>

\* create_flash_attention: strings are converted by Backend(...) and
\* Platform(...), which raise ValueError for a string that names no member
CreateFlashAttention(backend, platform, blocksize_q, blocksize_k) ==
    LET known == /\ backend \in Backends \cup {None}
                 /\ platform \in Platforms \cup {None}
        made == IF known
                THEN validate_config(
                        AttentionConfig(blocksize_q, blocksize_k, backend, platform))
                ELSE [error |-> "ValueError", instance |-> NoInstance]
    IN  /\ fa_call' = [op |-> "create", backend |-> backend, platform |-> platform,
                       blocksize_q |-> blocksize_q, blocksize_k |-> blocksize_k]
        /\ fa_ret' = [error |-> made.error, instance |-> made.instance] @@ NoKernel
        /\ attention' = (IF made.error = "none" THEN made.instance ELSE attention)
        /\ UNCHANGED <<host_backend, force_mha, outside_flash>>

\* a tensor is modelled along its head axis: the sequence of its head ids
Heads(n) == [h \in 1..n |-> h]

repeat_kv_heads_Tiled(x, num_reps) ==
    [j \in 1..(Len(x) * num_reps) |-> x[((j - 1) % Len(x)) + 1]]

\* einops.repeat(x, "b s h d -> b s (h r) d", r=num_reps), and the same
\* pattern on the bias: "b h q k -> b (h r) q k"
repeat_kv_heads(x, num_reps) ==
    [j \in 1..(Len(x) * num_reps) |-> x[((j - 1) \div num_reps) + 1]]

heads_divisible_Always(num_q_heads, num_kv_heads) == TRUE

\* the guard of __call__: num_q_heads % num_kv_heads == 0
heads_divisible(num_q_heads, num_kv_heads) == num_q_heads % num_kv_heads = 0

handle_bias_KvRatio(bias, num_q_heads, num_kv_heads) ==
    IF bias = <<>> THEN [error |-> "none", bias |-> <<>>]
    ELSE IF Len(bias) = num_q_heads THEN [error |-> "none", bias |-> bias]
    ELSE IF Len(bias) \in {num_kv_heads, 1}
         THEN [error |-> "none",
               bias |-> repeat_kv_heads(bias, num_q_heads \div num_kv_heads)]
         ELSE [error |-> "ValueError", bias |-> <<>>]

\* FlashAttention._handle_bias; a missing bias is the empty sequence
handle_bias(bias, num_q_heads, num_kv_heads) ==
    IF bias = <<>> THEN [error |-> "none", bias |-> <<>>]
    ELSE IF Len(bias) = num_q_heads THEN [error |-> "none", bias |-> bias]
    ELSE IF Len(bias) \in {num_kv_heads, 1}
         THEN [error |-> "none",
               bias |-> repeat_kv_heads(bias, num_q_heads \div Len(bias))]
         ELSE [error |-> "ValueError", bias |-> <<>>]

\* _compute_triton, _compute_pallas, _compute_jax: the kernel invoked and the
\* key/value heads handed to it
compute(cfg, num_q_heads, key) ==
    LET repeated == repeat_kv_heads(key, num_q_heads \div Len(key))
    IN  IF cfg.platform = "triton"
        THEN IF num_q_heads = Len(key) \/ force_mha
             THEN [kernel |-> "triton_flash_mha_attn_2_gpu", key |-> repeated,
                   log |-> <<"repeat_kv_heads">>]
             ELSE [kernel |-> "triton_flash_gqa_attn_2_gpu", key |-> key,
                   log |-> <<>>]
        ELSE IF cfg.platform = "pallas"
        THEN IF cfg.backend = "gpu"
             THEN [kernel |-> "pallas_flash_mha_attn_2_gpu", key |-> repeated,
                   log |-> <<"repeat_kv_heads">>]
             ELSE [kernel |-> "pallas_flash_attention_tpu", key |-> repeated,
                   log |-> <<"repeat_kv_heads">>]
        ELSE [kernel |-> "jax_flash_attn_2_mu", key |-> repeated,
              log |-> <<"repeat_kv_heads">>]

\* the block sizes every _compute_* passes to its kernel: blocksize_q for
\* each block along the query axis and blocksize_k for each block along the
\* key axis (the eleven fields of TPUBlockSizes are these two values)
kernel_blocks(cfg) ==
    [blocksize_q |-> cfg.blocksize_q, blocksize_k |-> cfg.blocksize_k]

config_after_call_Fallback(cfg, num_q_heads, num_kv_heads) ==
    IF cfg.platform = "triton" /\ num_q_heads # num_kv_heads
    THEN [cfg EXCEPT !.platform = "jax"]
    ELSE cfg

\* self.config after __call__: no method on the call path assigns to self
config_after_call(cfg, num_q_heads, num_kv_heads) == cfg

\* FlashAttention.__call__ on a query of q_len positions and num_q_heads
\* heads and a key/value of kv_len positions and num_kv_heads heads; log
\* lists the steps performed, in order
FlashCall(q_len, kv_len, num_q_heads, num_kv_heads, bias_heads) ==
    LET key == Heads(num_kv_heads)
        bias == Heads(bias_heads)
        hb == handle_bias(bias, num_q_heads, num_kv_heads)
        out == compute(attention, num_q_heads, key)
    IN  /\ attention # NoInstance
        /\ fa_call' = [op |-> "call", num_q_heads |-> num_q_heads,
                       num_kv_heads |-> num_kv_heads, bias_heads |-> bias_heads,
                       q_len |-> q_len, kv_len |-> kv_len, force_mha |-> force_mha]
        /\ fa_ret' =
            IF ~heads_divisible(num_q_heads, num_kv_heads)
            THEN [error |-> "ValueError", instance |-> NoInstance, kernel |-> None,
                  log |-> <<"check_heads">>]
            ELSE IF hb.error # "none"
            THEN [error |-> "ValueError", instance |-> NoInstance, kernel |-> None,
                  log |-> <<"check_heads", "handle_bias">>]
            ELSE [error |-> "none", instance |-> NoInstance, kernel |-> out.kernel,
                  log |-> <<"check_heads", "handle_bias">> \o out.log \o <<out.kernel>>,
                  key |-> out.key, value |-> out.key, bias |-> hb.bias,
                  blocks |-> kernel_blocks(attention)]
        /\ attention' = config_after_call(attention, num_q_heads, num_kv_heads)
        /\ UNCHANGED <<host_backend, force_mha, outside_flash>>

\* the process sets or clears the FORCE_MHA environment variable, which
\* _compute_triton reads on every call
SetForceMHA(value) ==
    /\ force_mha # value
    /\ force_mha' = value
    /\ UNCHANGED <<host_backend, attention, fa_call, fa_ret, outside_flash>>

HeadChoices == (1..MaxHeads) \cup {8, 30, 32}
\* head counts of the key and value
KvHeadChoices == (1..MaxHeads) \cup {8}
\* head counts of the bias: none, one head, and counts that are the query's,
\* the key's or neither, depending on the call
BiasHeadChoices == {0, 1, 8, 30}
BackendArgs == Backends \cup {None}
PlatformArgs == Platforms \cup {None}
BackendStrings == BackendArgs \cup {"cuda"}
PlatformStrings == PlatformArgs \cup {"cudnn"}

\* QS and KS of _test_forward
TestLen == 2048

FlashNext ==
    \/ \E b \in BackendArgs, p \in PlatformArgs :
            Construct(DefaultBlock, DefaultBlock, b, p)
    \/ \E b \in BackendStrings, p \in PlatformStrings :
            CreateFlashAttention(b, p, DefaultBlock, DefaultBlock)
    \/ \E q \in HeadChoices, kv \in KvHeadChoices, bh \in BiasHeadChoices :
            FlashCall(TestLen, TestLen, q, kv, bh)
    \/ \E value \in BOOLEAN : SetForceMHA(value)

----------------------------------------------------------------------------
(* SplashAttn: the TPU strategy and its unimplemented backends *)

NoBlocks == [block_q |-> None]

\* jnp.repeat(mask, num_reps_mask, 0) on a mask modelled along its batch axis
jnp_repeat(x, num_reps) ==
    [j \in 1..(Len(x) * num_reps) |-> x[((j - 1) \div num_reps) + 1]]

replicate_mask_Never(mask, q_batch) == mask

\* the mask forward_tpu goes on with: replicated along the batch axis when
\* its batch differs from the query's; a missing mask is the empty sequence
replicate_mask(mask, q_batch) ==
    IF mask # <<>> /\ Len(mask) # q_batch
    THEN jnp_repeat(mask, q_batch \div Len(mask))
    ELSE mask

\* BlockSizes(...) of forward_tpu
splash_block_sizes(md, query_lenght, value_lenght) ==
    [block_q |-> Min2(md.blocksize_q, query_lenght),
     block_kv_compute |-> Min2(md.blocksize_k, value_lenght),
     block_kv |-> Min2(md.blocksize_k, value_lenght),
     block_q_dkv |-> Min2(md.blocksize_q, query_lenght),
     block_kv_dkv |-> Min2(md.blocksize_k, value_lenght),
     block_kv_dkv_compute |-> Min2(md.blocksize_k, value_lenght),
     block_q_dq |-> Min2(md.blocksize_q, query_lenght),
     block_kv_dq |-> Min2(md.blocksize_k, value_lenght)]

SplashMethods == {"native", "gpu", "tpu", "cpu", "cuda", "rocm"}

splash_implemented_NativeToo(method) == method \in {"tpu", "native"}

\* the forward_* methods of SplashAttn that do not raise NotImplementedError
splash_implemented(method) == method = "tpu"

\* SplashAttn.forward_<method>(q, k, v, mask): q of q_batch batches and q_len
\* positions, k and v of kv_len positions, mask of mask_batch batches (0: None)
SplashForward(method, q_batch, mask_batch, q_len, kv_len) ==
    /\ splash_call' = [op |-> "forward", method |-> method, q_batch |-> q_batch,
                       mask_batch |-> mask_batch, q_len |-> q_len, kv_len |-> kv_len]
    /\ splash_ret' =
        IF splash_implemented(method)
        THEN [error |-> "none",
              kernel |-> "make_splash_mqa_single_device",
              mask |-> replicate_mask(Heads(mask_batch), q_batch),
              block_sizes |-> splash_block_sizes(metadata, q_len, kv_len)]
        ELSE [error |-> "NotImplementedError", kernel |-> None, mask |-> <<>>,
              block_sizes |-> NoBlocks]
    /\ UNCHANGED <<metadata, outside_splash>>

\* block sizes of the tests: 16 and 64 (_test_backward, _test_forward), 128
BlockChoices == {16, 128}
\* sequence lengths: one below every block size but 16, one above all
SeqLens == {32, TestLen}

\* batch sizes of the query and of the mask (0: no mask)
BatchChoices == {1, 2, 3}

KernelNext ==
    \/ \E bq \in BlockChoices, bk \in BlockChoices, b \in {"gpu", "tpu"} :
            Construct(bq, bk, b, "pallas")
    \/ \E ql \in SeqLens, kl \in SeqLens, kv \in {2, 8} :
            FlashCall(ql, kl, 8, kv, 0)
    \/ \E qb \in BatchChoices, mb \in BatchChoices \cup {0},
          ql \in SeqLens, kl \in SeqLens :
            SplashForward("tpu", qb, mb, ql, kl)
    \/ \E m \in SplashMethods \ {"tpu"}, ql \in SeqLens, kl \in SeqLens :
            SplashForward(m, 2, 1, ql, kl)

----------------------------------------------------------------------------
(* Whole arrays: an array is its shape and its elements in row-major order. *)
(* Axes and indices count from 0, as in the source.                        *)

Array(shape, data) == [error |-> "none", shape |-> shape, data |-> data]
Raised(error) == [error |-> error, shape |-> <<>>, data |-> <<>>]

RECURSIVE Prod(_)
Prod(shape) == IF shape = <<>> THEN 1 ELSE Head(shape) * Prod(Tail(shape))

\* the row-major offset of the element at index idx
RECURSIVE Ravel(_, _)
Ravel(idx, shape) ==
    IF shape = <<>> THEN 0
    ELSE Head(idx) * Prod(Tail(shape)) + Ravel(Tail(idx), Tail(shape))

\* the index of the element at row-major offset k
Unravel(k, shape) ==
    [i \in 1..Len(shape) |->
        (k \div Prod(SubSeq(shape, i + 1, Len(shape)))) % shape[i]]

At(x, idx) == x.data[Ravel(idx, x.shape) + 1]

\* the array of a shape whose element at idx is x's element at from(idx)
Gather(x, shape, from(_)) ==
    Array(shape, [k \in 1..Prod(shape) |-> At(x, from(Unravel(k - 1, shape)))])

\* jnp.arange(size).reshape(shape): every element names its own position
arange(shape) == Array(shape, [k \in 1..Prod(shape) |-> k - 1])

\* x.transpose(*axes): raises unless axes permutes the axes of x
transpose(x, axes) ==
    IF x.error # "none" THEN x
    ELSE IF Len(axes) # Len(x.shape) THEN Raised("TypeError")
    ELSE LET n == Len(axes)
             src(idx) == [a \in 1..n |-> idx[CHOOSE i \in 1..n : axes[i] + 1 = a]]
         IN  Gather(x, [i \in 1..n |-> x.shape[axes[i] + 1]], src)

\* x[..., newaxis, ...]: a new axis of length 1 at position axis
expand_dims(x, axis) ==
    IF x.error # "none" THEN x
    ELSE Array(SubSeq(x.shape, 1, axis) \o <<1>>
                   \o SubSeq(x.shape, axis + 1, Len(x.shape)), x.data)

\* jnp.repeat(x, repeats, axis): each entry along axis, repeats times in place
repeat_axis(x, repeats, axis) ==
    IF x.error # "none" THEN x
    ELSE LET src(idx) == [idx EXCEPT ![axis + 1] = @ \div repeats]
         IN  Gather(x, [x.shape EXCEPT ![axis + 1] = @ * repeats], src)

\* x.reshape(shape): the same elements in the same order
reshape(x, shape) ==
    IF x.error # "none" THEN x
    ELSE IF Prod(shape) # Prod(x.shape) THEN Raised("TypeError")
    ELSE Array(shape, x.data)

\* repeat_kv_bsnh of the older modelling utilities
repeat_kv_bsnh(x, n_rep) ==
    LET bs == x.shape[1]
        s == x.shape[2]
        n_kv_heads == x.shape[3]
        head_dim == x.shape[4]
        t == transpose(x, <<0, 2, 1, 3>>)
    IN  IF n_rep = 1 THEN t
        ELSE reshape(transpose(repeat_axis(expand_dims(t, 2), n_rep, 2),
                               <<0, 2, 1, 3>>),
                     <<bs, s, n_kv_heads * n_rep, head_dim>>)

\* repeat_kv of the Phi module
repeat_kv(x, n_rep) ==
    LET bs == x.shape[1]
        s == x.shape[2]
        n_kv_heads == x.shape[3]
        head_dim == x.shape[4]
    IN  IF n_rep = 1 THEN x
        ELSE reshape(repeat_axis(expand_dims(x, 2), n_rep, 2),
                     <<bs, s, n_kv_heads * n_rep, head_dim>>)

\* the (batch, seq, n_kv_heads, head_dim) shapes explored
KvShapes ==
    {<<bs, s, h, d>> : bs \in 1..MaxBatch, s \in 1..MaxSeq,
                       h \in 1..MaxHeads, d \in 1..HeadDim}

\* FlaxAttentionModule.repeat_key_value: einops "b s h d -> b s (h r) d",
\* the new head axis split as (h, r) with r the faster index
repeat_key_value(key, value, num_reps) ==
    LET source(x, j) == x[Unravel(j, <<Len(x), num_reps>>)[1] + 1]
    IN  [error |-> "none",
         key |-> [j \in 1..(Len(key) * num_reps) |-> source(key, j - 1)],
         value |-> [j \in 1..(Len(value) * num_reps) |-> source(value, j - 1)]]

\* _attn_refrence: the key/value head and the bias head each query head is
\* paired with.  The query is reshaped to (b, qs, num_kv_heads, r, d) and
\* contracted with the key over the num_kv_heads axis; a bias is reshaped
\* to (b, num_kv_heads, r, qs, ks), (b, num_kv_heads, 1, qs, ks) or
\* (b, 1, 1, qs, ks) and broadcast against the weights.
attn_refrence(num_q_heads, num_kv_heads, bias_heads) ==
    LET r == num_q_heads \div num_kv_heads
        kh(j) == Unravel(j, <<num_kv_heads, r>>)
        bias_head(j) ==
            IF bias_heads = num_q_heads
            THEN Ravel(kh(j), <<num_kv_heads, r>>)
            ELSE IF bias_heads = num_kv_heads
            THEN Ravel(<<kh(j)[1], 0>>, <<num_kv_heads, 1>>)
            ELSE 0
    IN  IF num_q_heads # num_kv_heads * r
        THEN [error |-> "TypeError", key |-> <<>>, bias |-> <<>>]
        ELSE IF bias_heads \notin {0, num_q_heads, num_kv_heads, 1}
        THEN [error |-> "NotImplementedError", key |-> <<>>, bias |-> <<>>]
        ELSE [error |-> "none",
              key |-> [j \in 1..num_q_heads |-> kh(j - 1)[1] + 1],
              bias |-> IF bias_heads = 0 THEN <<>>
                       ELSE [j \in 1..num_q_heads |-> bias_head(j - 1) + 1]]

RepeatKeyValue(num_kv_heads, num_reps) ==
    /\ array_call = NoCall
    /\ array_call' = [op |-> "repeat_key_value", num_kv_heads |-> num_kv_heads,
                      num_reps |-> num_reps]
    /\ array_ret' = repeat_key_value(Heads(num_kv_heads), Heads(num_kv_heads),
                                     num_reps)
    /\ UNCHANGED outside_array

AttnRefrence(num_q_heads, num_kv_heads, bias_heads) ==
    /\ array_call = NoCall
    /\ array_call' = [op |-> "attn_refrence", num_q_heads |-> num_q_heads,
                      num_kv_heads |-> num_kv_heads, bias_heads |-> bias_heads]
    /\ array_ret' = attn_refrence(num_q_heads, num_kv_heads, bias_heads)
    /\ UNCHANGED outside_array

\* each function is applied to one input, from the idle state
RepeatKvBsnh(shape, n_rep) ==
    /\ array_call = NoCall
    /\ array_call' = [op |-> "repeat_kv_bsnh", x |-> arange(shape), n_rep |-> n_rep]
    /\ array_ret' = repeat_kv_bsnh(arange(shape), n_rep)
    /\ UNCHANGED outside_array

PhiRepeatKv(shape, n_rep) ==
    /\ array_call = NoCall
    /\ array_call' = [op |-> "repeat_kv", x |-> arange(shape), n_rep |-> n_rep]
    /\ array_ret' = repeat_kv(arange(shape), n_rep)
    /\ UNCHANGED outside_array

----------------------------------------------------------------------------
(* quantize_kv_cache and dequantize_kv_cache: the uint8 codec with a scale  *)
(* and a zero point per (batch, head) group.  A float here is a rational,  *)
(* an infinity (n is its sign) or NaN, with the IEEE rules for division by *)
(* zero and for sums and products of infinities.                           *)

\* jnp.iinfo(jnp.uint8).min and .max
UInt8Min == 0
UInt8Max == 255
\* significant bits of a float16, the default float_dtype
F16Bits == 11

KFin(n, d) == [k |-> "fin", n |-> Reduced(n, d).n, d |-> Reduced(n, d).d]
KInf(sign) == [k |-> "inf", n |-> sign, d |-> 1]
KNaN == [k |-> "nan", n |-> 0, d |-> 1]
Sign(n) == IF n < 0 THEN -1 ELSE 1

ksub(a, b) ==
    IF a.k = "nan" \/ b.k = "nan" THEN KNaN
    ELSE IF a.k = "inf" /\ b.k = "inf" THEN (IF a.n = b.n THEN KNaN ELSE a)
    ELSE IF a.k = "inf" THEN a
    ELSE IF b.k = "inf" THEN KInf(-b.n)
    ELSE KFin(a.n * b.d - b.n * a.d, a.d * b.d)

kadd(a, b) == ksub(a, [b EXCEPT !.n = -@])

kmul(a, b) ==
    IF a.k = "nan" \/ b.k = "nan" THEN KNaN
    ELSE IF a.k = "inf" \/ b.k = "inf"
         THEN (IF a.n = 0 \/ b.n = 0 THEN KNaN ELSE KInf(Sign(a.n) * Sign(b.n)))
    ELSE KFin(a.n * b.n, a.d * b.d)

\* a / b, where a zero divisor is +0
kdiv(a, b) ==
    IF a.k = "nan" \/ b.k = "nan" THEN KNaN
    ELSE IF a.k = "inf" THEN (IF b.k = "inf" THEN KNaN ELSE KInf(a.n * Sign(b.n)))
    ELSE IF b.k = "inf" THEN KFin(0, 1)
    ELSE IF b.n = 0 THEN (IF a.n = 0 THEN KNaN ELSE KInf(Sign(a.n)))
    ELSE KFin(a.n * b.d * Sign(b.n), a.d * Abs(b.n))

\* f applied to every element
MapArray(x, f(_)) == Array(x.shape, [k \in 1..Prod(x.shape) |-> f(x.data[k])])

\* op(x, y) where the last axis of y has length 1 and is broadcast
Broadcast(x, y, op(_, _)) ==
    Array(x.shape,
          [k \in 1..Prod(x.shape) |->
              op(x.data[k],
                 At(y, [Unravel(k - 1, x.shape) EXCEPT ![Len(x.shape)] = 0]))])

\* jnp.max and jnp.min over the last axis of a (batch, head, n) array of
\* finite numbers, keepdims=True
reduce_last(x, leq(_, _)) ==
    LET n == x.shape[3]
        group(g) == {x.data[(g - 1) * n + j] : j \in 1..n}
    IN  Array(<<x.shape[1], x.shape[2], 1>>,
              [g \in 1..(x.shape[1] * x.shape[2]) |->
                  CHOOSE m \in group(g) : \A y \in group(g) : leq(y, m)])

\* jnp.clip(res, qmin, qmax).astype(jnp.uint8): a finite number is clipped
\* and truncated; the conversion of NaN is whatever the build makes of it
to_uint8(r, nan_code) ==
    IF r.k = "nan" THEN nan_code
    ELSE IF r.k = "inf" THEN (IF r.n < 0 THEN UInt8Min ELSE UInt8Max)
    ELSE Clip(r.n \div r.d, UInt8Min, UInt8Max)

quantize_kv_cache(x, nan_code) ==
    LET fdata == transpose(x, <<0, 2, 1, 3>>)
        shape == fdata.shape
        qmin == KFin(UInt8Min, 1)
        qmax == KFin(UInt8Max, 1)
        fdata_cal == reshape(fdata, <<shape[1], shape[2], shape[3] * shape[4]>>)
        fmax == reduce_last(fdata_cal, LAMBDA a, b : ksub(b, a).n >= 0)
        fmin == reduce_last(fdata_cal, LAMBDA a, b : ksub(a, b).n >= 0)
        scale0 == MapArray(Broadcast(fmax, fmin, ksub),
                           LAMBDA r : kdiv(r, ksub(qmax, qmin)))
        zero0 == MapArray(Broadcast(fmin, scale0, kdiv), LAMBDA r : ksub(qmin, r))
        scale == repeat_axis(expand_dims(scale0, 3), shape[3], 2)
        zero == repeat_axis(expand_dims(zero0, 3), shape[3], 2)
        res_data == Broadcast(Broadcast(fdata, scale, kdiv), zero, kadd)
        qdata == MapArray(res_data, LAMBDA r : to_uint8(r, nan_code))
    IN  [error |-> "none",
         qdata |-> transpose(qdata, <<0, 2, 1, 3>>),
         scale |-> transpose(scale, <<0, 2, 1, 3>>),
         zero |-> transpose(zero, <<0, 2, 1, 3>>)]

\* lax.convert_element_type(r, jnp.float16)
to_float16(r) ==
    IF r.k # "fin" THEN r
    ELSE LET h == RoundSig(Rat(r.n, r.d), F16Bits) IN KFin(h.n, h.d)

dequantize_kv_cache(array_quant, scale, zero) ==
    LET q == MapArray(transpose(array_quant, <<0, 2, 1, 3>>), LAMBDA c : KFin(c, 1))
        s == transpose(scale, <<0, 2, 1, 3>>)
        z == transpose(zero, <<0, 2, 1, 3>>)
        uq == MapArray(Broadcast(Broadcast(q, z, ksub), s, LAMBDA a, b : kmul(b, a)),
                       to_float16)
    IN  transpose(uq, <<0, 2, 1, 3>>)

\* the tensors handed to quantize_kv_cache: (batch 1, seq 2, heads 2,
\* head_dim 1), so two groups of two numbers
FdataValues == {-3, 0, 2, 5}
Fdatas ==
    {Array(<<1, 2, 2, 1>>, [k \in 1..4 |-> KFin(f[k], 1)]) :
        f \in [1..4 -> FdataValues]}
\* what the conversion of NaN to uint8 may give
NanCodes == {UInt8Min, UInt8Max}

QuantizeKvCache(fdata, nan_code) ==
    /\ array_call = NoCall
    /\ array_call' = [op |-> "quantize_kv_cache", x |-> fdata]
    /\ array_ret' = quantize_kv_cache(fdata, nan_code)
    /\ UNCHANGED outside_array

\* the caller decodes what quantize_kv_cache returned
DequantizeKvCache ==
    /\ array_call.op = "quantize_kv_cache"
    /\ array_call' = [op |-> "dequantize_kv_cache", x |-> array_call.x,
                      enc |-> array_ret]
    /\ array_ret' = dequantize_kv_cache(array_ret.qdata, array_ret.scale,
                                        array_ret.zero)
    /\ UNCHANGED outside_array

ArrayNext ==
    \/ \E shape \in KvShapes, n_rep \in 1..MaxRep : RepeatKvBsnh(shape, n_rep)
    \/ \E shape \in KvShapes, n_rep \in 1..MaxRep : PhiRepeatKv(shape, n_rep)
    \/ \E fdata \in Fdatas, nan_code \in NanCodes : QuantizeKvCache(fdata, nan_code)
    \/ DequantizeKvCache
    \/ \E kv \in KvHeadChoices, r \in 1..MaxRep : RepeatKeyValue(kv, r)
    \/ \E q \in HeadChoices, kv \in KvHeadChoices, bh \in BiasHeadChoices :
            AttnRefrence(q, kv, bh)

----------------------------------------------------------------------------
(* Specifications *)

\* nothing constructed or called yet
FlashIdle ==
    /\ attention = NoInstance
    /\ fa_call = NoCall
    /\ fa_ret = NoRet

\* no bias built yet
BiasIdle ==
    /\ bias_call = NoCall
    /\ attention_bias = <<>>
    /\ attn_weights = <<>>

\* no function of whole arrays called yet
ArrayIdle ==
    /\ array_call = NoCall
    /\ array_ret = NoRet

\* a SplashAttn with the default metadata, not called yet
SplashIdle ==
    /\ metadata = [blocksize_q |-> DefaultBlock, blocksize_k |-> DefaultBlock]
    /\ splash_call = NoCall
    /\ splash_ret = NoRet

Init ==
    /\ CacheInit
    /\ host_backend = "cpu"
    /\ force_mha = FALSE
    /\ FlashIdle
    /\ SplashIdle
    /\ CodecIdle
    /\ BiasIdle
    /\ ArrayIdle

Next == CacheNext

\* the cache slot of one attention layer through a decoding session
Spec == Init /\ [][Next]_vars

FlashInit ==
    /\ CacheInit
    /\ config.module = "FlaxAttentionModule"
    /\ ~config.quantize_kv_cache
    /\ ~config.use_sharded_kv_caching
    /\ host_backend \in Backends
    /\ force_mha \in BOOLEAN
    /\ FlashIdle
    /\ SplashIdle
    /\ CodecIdle
    /\ BiasIdle
    /\ ArrayIdle

\* the dispatch layer: constructions and calls of FlashAttention
FlashSpec == FlashInit /\ [][FlashNext]_vars

KernelInit ==
    /\ CacheInit
    /\ config.module = "FlaxAttentionModule"
    /\ ~config.quantize_kv_cache
    /\ ~config.use_sharded_kv_caching
    /\ host_backend = "tpu"
    /\ force_mha = FALSE
    /\ FlashIdle
    /\ metadata \in [blocksize_q : BlockChoices, blocksize_k : BlockChoices]
    /\ splash_call = NoCall
    /\ splash_ret = NoRet
    /\ CodecIdle
    /\ BiasIdle
    /\ ArrayIdle

\* what the tiled strategies hand to their kernels: FlashAttention on the
\* Pallas platform and SplashAttn, over block sizes and sequence lengths
KernelSpec == KernelInit /\ [][KernelNext]_vars

----------------------------------------------------------------------------
(* quantize_8bit and dequantize_8bit as pure functions of the row *)

CodecInit ==
    /\ CacheInit
    /\ config.module = "FlaxAttentionModule"
    /\ ~config.quantize_kv_cache
    /\ ~config.use_sharded_kv_caching
    /\ host_backend = "cpu"
    /\ force_mha = FALSE
    /\ FlashIdle
    /\ SplashIdle
    /\ weight \in [x : Rows, dtype : Dtypes]
    /\ quantized = NotQuantized
    /\ dequantized = <<>>
    /\ requantized = NotQuantized
    /\ BiasIdle
    /\ ArrayIdle

CodecSpec == CodecInit /\ [][CodecNext]_vars

ArrayInit ==
    /\ CacheInit
    /\ config.module = "FlaxAttentionModule"
    /\ ~config.quantize_kv_cache
    /\ ~config.use_sharded_kv_caching
    /\ host_backend = "cpu"
    /\ force_mha = FALSE
    /\ FlashIdle
    /\ SplashIdle
    /\ CodecIdle
    /\ BiasIdle
    /\ ArrayIdle

\* the functions of whole arrays, over small shapes
ArraySpec == ArrayInit /\ [][ArrayNext]_vars

BiasInit ==
    /\ CacheInit
    /\ config.module = "FlaxPhiAttention"
    /\ host_backend = "cpu"
    /\ force_mha = FALSE
    /\ FlashIdle
    /\ SplashIdle
    /\ CodecIdle
    /\ BiasIdle
    /\ ArrayIdle

\* masks turned into biases, and the dense softmax over them
BiasSpec == BiasInit /\ [][BiasNext]_vars

----------------------------------------------------------------------------
(* Properties of the cache slot *)

max_length == Len(cached_key)
IsAppend == call.op = "append"

\* position p (1-based) lies in the range the call was asked to write
InNewRange(p) == call.cur_index < p /\ p <= call.cur_index + call.n

\* C1: after init and any sequence of appends the write cursor stays within
\* the capacity of the slot: 0 <= cache_index <= max_length.
C1_CursorWithinCapacity ==
    is_initialized => (0 <= cache_index /\ cache_index <= max_length)

\* C2: an append that would push the cursor past max_length fails with an
\* out-of-capacity error and writes nothing.
C2_OverflowIsCapacityError ==
    (IsAppend /\ call.cur_index + call.n > max_length) =>
        /\ ret.error = "CapacityError"
        /\ cached_key = call.pre_key
        /\ cached_value = call.pre_value
        /\ cache_index = call.cur_index

\* C3: an append at cursor c leaves the cached key and value of every
\* position below c as they were before the call.
C3_NeverOverwritesEarlier ==
    IsAppend =>
        \A p \in 1..max_length :
            p <= call.cur_index =>
                /\ cached_key[p] = call.pre_key[p]
                /\ cached_value[p] = call.pre_value[p]

\* C4: every append of n new tokens advances the write cursor by exactly n,
\* whichever path (non-sharded, sharded, quantized) it takes.
C4_CursorAdvancesByN ==
    IsAppend => cache_index = call.cur_index + call.n

C4_Witness ==
    /\ IsAppend
    /\ call.path = "sharded"
    /\ call.cur_index = 2
    /\ cache_index = 3

\* C5: a non-sharded append that fits returns the whole cache, equal to the
\* pre-call cache except for the new rows at [c, c+n), and a mask that is
\* valid exactly at the positions below c+n the caller's mask allows.
C5_DenseAppendResult ==
    (IsAppend /\ call.path \in {"dense", "phi"}
        /\ call.cur_index + call.n <= max_length) =>
        LET before_key == Materialize(call.pre_key)
            before_value == Materialize(call.pre_value)
        IN  /\ Len(ret.key) = max_length
            /\ Len(ret.value) = max_length
            /\ \A p \in 1..max_length :
                /\ ret.key[p] = (IF InNewRange(p)
                                 THEN call.key[p - call.cur_index]
                                 ELSE before_key[p])
                /\ ret.value[p] = (IF InNewRange(p)
                                   THEN call.value[p - call.cur_index]
                                   ELSE before_value[p])
                /\ ret.mask[p] => (p - 1) < call.cur_index + call.n
                /\ ((p - 1) < call.cur_index + call.n /\ call.mask[p]) => ret.mask[p]

C5_Witness ==
    /\ IsAppend
    /\ call.path = "dense"
    /\ call.n = 2
    /\ call.cur_index = 1
    /\ ret.key[1] # ZeroRow
    /\ ret.key[2] = call.key[1]
    /\ ~call.mask[1] /\ ~ret.mask[1]
    /\ ret.mask[3] /\ ~ret.mask[4]

\* C6: a sharded single-token append mutates only the shard whose range
\* contains the global cursor, and that shard only at cursor - shard_start.
C6_OnlyOwningShardMutated ==
    (IsAppend /\ call.path = "sharded") =>
        LET sp == max_length \div NumShards
        IN  \A i \in 0..(NumShards - 1) :
                LET lo == i * sp
                    owns == lo <= call.cur_index /\ call.cur_index < lo + sp
                IN  \A j \in 1..sp :
                        LET p == lo + j
                            written == owns /\ j - 1 = call.cur_index - lo
                        IN  /\ cached_key[p] =
                                (IF written THEN call.key[1] ELSE call.pre_key[p])
                            /\ cached_value[p] =
                                (IF written THEN call.value[1] ELSE call.pre_value[p])

C6_Witness ==
    /\ IsAppend
    /\ call.path = "sharded"
    /\ call.cur_index = ShardLen + 1
    /\ cached_key[ShardLen + 2] = call.key[1]
    /\ cached_key[ShardLen + 2] # call.pre_key[ShardLen + 2]
    /\ SubSeq(cached_key, 1, ShardLen) = SubSeq(call.pre_key, 1, ShardLen)

WriteStart == Clip(call.cur_index, 0, max_length - call.n)

C8_InitAllocatesZeroed ==
    (call.op = "init") =>
        /\ is_initialized
        /\ cache_index = 0
        /\ Len(cached_key) = Len(call.key)
        /\ Len(cached_value) = Len(call.value)
        /\ \A p \in 1..max_length :
            IF config.quantize_kv_cache
            THEN /\ cached_key[p].q = ZeroRow
                 /\ cached_value[p].q = ZeroRow
                 /\ DequantizeRow(cached_key[p]) = ZeroRow
                 /\ DequantizeRow(cached_value[p]) = ZeroRow
            ELSE /\ cached_key[p] = ZeroRow
                 /\ cached_value[p] = ZeroRow
        /\ ret.key = call.key
        /\ ret.value = call.value
        /\ ret.mask = call.mask

C8_Witness ==
    /\ call.op = "init"
    /\ config.quantize_kv_cache
    /\ call.key[1] # ZeroRow
    /\ cached_key[1].max_val = FloorMaxVal

----------------------------------------------------------------------------
(* Properties of the FlashAttention dispatch layer *)

IsFlashCall == fa_call.op = "call"
IsConstruction == fa_call.op \in {"construct", "create"}

ConfigErrorBeforeBias ==
    /\ fa_ret.error = "ValueError"
    /\ fa_ret.log = <<"check_heads">>
    /\ fa_ret.kernel = None

\* the key/value heads are the input heads, each repeated r times in place
RepeatedBy(r) ==
    /\ Len(fa_ret.key) = fa_call.num_kv_heads * r
    /\ Len(fa_ret.value) = fa_call.num_kv_heads * r
    /\ \A j \in 1..(fa_call.num_kv_heads * r) :
        /\ fa_ret.key[j] = ((j - 1) \div r) + 1
        /\ fa_ret.value[j] = ((j - 1) \div r) + 1

\* C9 (as stated): a call whose q_heads is not a multiple of kv_heads raises
\* a configuration error before the bias is processed and before any kernel
\* runs; when it is a multiple, the key/value heads handed to the kernel are
\* repeated by exactly q_heads / kv_heads.
C9_HeadRepetition ==
    IsFlashCall =>
        IF fa_call.num_q_heads % fa_call.num_kv_heads # 0
        THEN ConfigErrorBeforeBias
        ELSE fa_ret.error = "none" =>
                RepeatedBy(fa_call.num_q_heads \div fa_call.num_kv_heads)

\* C9 (amended): a call whose q_heads is not a multiple of kv_heads raises a
\* configuration error before the bias is processed and before any kernel
\* runs; when it is a multiple, the key/value heads are repeated by exactly
\* q_heads / kv_heads, except on the Triton platform with q_heads # kv_heads
\* and FORCE_MHA unset, where they are handed unrepeated to the native
\* grouped-query kernel.
C9_HeadRepetitionOrNativeGQA ==
    IsFlashCall =>
        IF fa_call.num_q_heads % fa_call.num_kv_heads # 0
        THEN ConfigErrorBeforeBias
        ELSE fa_ret.error = "none" =>
                IF /\ attention.platform = "triton"
                   /\ fa_call.num_q_heads # fa_call.num_kv_heads
                   /\ ~fa_call.force_mha
                THEN /\ fa_ret.kernel = "triton_flash_gqa_attn_2_gpu"
                     /\ RepeatedBy(1)
                ELSE /\ fa_ret.kernel # "triton_flash_gqa_attn_2_gpu"
                     /\ RepeatedBy(fa_call.num_q_heads \div fa_call.num_kv_heads)

C9_Witness ==
    /\ IsFlashCall
    /\ fa_call.num_q_heads = 32
    /\ fa_call.num_kv_heads = 8
    /\ fa_ret.error = "none"
    /\ fa_ret.kernel = "jax_flash_attn_2_mu"
    /\ Len(fa_ret.key) = 32
    /\ fa_ret.key[4] = 1 /\ fa_ret.key[5] = 2

\* the (backend, platform) pair a construction asks for, after the defaults
\* for missing arguments are filled in
RequestedBackend ==
    IF fa_call.backend = None THEN host_backend ELSE fa_call.backend
RequestedPlatform ==
    IF fa_call.platform # None THEN fa_call.platform
    ELSE CASE RequestedBackend = "gpu" -> "triton"
           [] RequestedBackend = "cpu" -> "jax"
           [] RequestedBackend = "tpu" -> "pallas"
           [] OTHER -> None

\* C10: constructing a FlashAttention, directly or through
\* create_flash_attention, with a (backend, platform) pair outside the
\* compatibility table raises a configuration error and returns no instance;
\* an instance that is returned carries exactly the requested pair, never a
\* substituted platform; no kernel runs during construction.
C10_UnsupportedPairRejected ==
    IsConstruction =>
        /\ fa_ret.kernel = None
        /\ (<<RequestedBackend, RequestedPlatform>> \notin valid_combinations) =>
                /\ fa_ret.error = "ValueError"
                /\ fa_ret.instance = NoInstance
        /\ fa_ret.instance # NoInstance =>
                /\ fa_ret.error = "none"
                /\ fa_ret.instance.backend = RequestedBackend
                /\ fa_ret.instance.platform = RequestedPlatform
                /\ attention = fa_ret.instance

C10_Witness ==
    /\ fa_call.op = "create"
    /\ fa_call.backend = "cpu"
    /\ fa_call.platform = "triton"
    /\ fa_ret.error = "ValueError"
    /\ fa_ret.instance = NoInstance
    /\ attention # NoInstance

----------------------------------------------------------------------------
(* Properties of the bias handling *)

\* C11: a bias whose head count equals the query heads reaches the kernel
\* unchanged; a bias with kv_heads or 1 head is expanded along the head axis
\* to exactly q_heads (each head repeated q_heads \div bias_heads times); any
\* other head count is a ValueError raised before a kernel is chosen; a
\* missing bias stays missing.
C11_BiasHeadNormalization ==
    (IsFlashCall /\ heads_divisible(fa_call.num_q_heads, fa_call.num_kv_heads)) =>
        LET q == fa_call.num_q_heads
            kv == fa_call.num_kv_heads
            bh == fa_call.bias_heads
        IN  IF bh = 0
            THEN fa_ret.error = "none" /\ fa_ret.bias = <<>>
            ELSE IF bh = q
            THEN fa_ret.error = "none" /\ fa_ret.bias = Heads(bh)
            ELSE IF bh \in {kv, 1}
            THEN /\ fa_ret.error = "none"
                 /\ Len(fa_ret.bias) = q
                 /\ \A j \in 1..q : fa_ret.bias[j] = ((j - 1) \div (q \div bh)) + 1
            ELSE /\ fa_ret.error = "ValueError"
                 /\ fa_ret.kernel = None
                 /\ fa_ret.log = <<"check_heads", "handle_bias">>

C11_Witness ==
    /\ IsFlashCall
    /\ fa_call.num_q_heads = 8
    /\ fa_call.num_kv_heads = 2
    /\ fa_call.bias_heads = 1
    /\ fa_ret.error = "none"
    /\ Len(fa_ret.bias) = 8
    /\ fa_ret.kernel # None

----------------------------------------------------------------------------
(* Properties of the block sizes *)

IsSplashCall == splash_call.op = "forward" /\ splash_ret.error = "none"
FlashKernelRan == IsFlashCall /\ fa_ret.error = "none"

\* C12: every block size a strategy hands to its kernel is
\* min(configured block size, actual sequence length) of its axis, so a
\* configured block of 128 against a length of 32 runs with a block <= 32.
C12_BlockSizesClamped ==
    /\ IsSplashCall =>
        LET bs == splash_ret.block_sizes
            bq == Min2(metadata.blocksize_q, splash_call.q_len)
            bk == Min2(metadata.blocksize_k, splash_call.kv_len)
        IN  /\ {bs.block_q, bs.block_q_dkv, bs.block_q_dq} = {bq}
            /\ {bs.block_kv, bs.block_kv_compute, bs.block_kv_dkv,
                bs.block_kv_dkv_compute, bs.block_kv_dq} = {bk}
    /\ FlashKernelRan =>
        /\ fa_ret.blocks.blocksize_q = Min2(attention.blocksize_q, fa_call.q_len)
        /\ fa_ret.blocks.blocksize_k = Min2(attention.blocksize_k, fa_call.kv_len)

----------------------------------------------------------------------------
(* Properties of the 8-bit codec *)

IsZeroRow(x) == \A i \in 1..Len(x) : x[i] = 0
Decoded == dequantized # <<>>
\* |dequantized[i] - x[i]| <= num/den * qscale
ErrorWithin(i, num, den) ==
    LET dq == dequantized[i]
        sc == quantized.qscale
    IN  den * sc.d * Abs(dq.n - weight.x[i] * dq.d) <= num * sc.n * dq.d

IsQuantized == quantized.qweight # <<>>
\* the scale of a row whose max_val sits at the floor
FloorScale(dtype) == astype(Rat(MinMaxVal, QMax), dtype)

\* C14: for an all-zero row quantize returns the floor scale and an all-zero
\* payload, and dequantize of that encoding is exactly zero in every element.
C14_ZeroRow ==
    IsZeroRow(weight.x) =>
        /\ IsQuantized =>
            /\ \A i \in 1..RowLen : quantized.qweight[i] = 0
            /\ RatEq(quantized.qscale, FloorScale(weight.dtype))
        /\ Decoded => \A i \in 1..RowLen : dequantized[i].n = 0

C14_Witness ==
    /\ IsZeroRow(weight.x)
    /\ weight.dtype = "bfloat16"
    /\ Decoded
    /\ quantized.qscale.n > 0

\* C15 (as stated): the scale quantize returns is at least 1e-5 for every row.
C15_ScaleAtLeastFloor ==
    IsQuantized => RatLeq(Rat(MinMaxVal, 1), quantized.qscale)

\* C15 (amended): the floor 1e-5 is applied to the row's absolute maximum,
\* not to the scale: the scale quantize returns is at least 1e-5/127 cast to
\* the row's dtype, it is positive for every row, and it is below 1e-5 for
\* every row whose absolute maximum is below 127 * 1e-5.
C15_ScaleAtLeastFloorOver127 ==
    IsQuantized =>
        /\ RatLeq(FloorScale(weight.dtype), quantized.qscale)
        /\ quantized.qscale.n > 0
        /\ RowAbsMax(weight.x, RowLen) < QMax * MinMaxVal - MinMaxVal =>
                ~RatLeq(Rat(MinMaxVal, 1), quantized.qscale)

C15_Witness ==
    /\ IsQuantized
    /\ weight.x[1] = 5
    /\ weight.x[2] = 0
    /\ RatEq(quantized.qscale, FloorScale(weight.dtype))
    /\ ~RatLeq(Rat(MinMaxVal, 1), quantized.qscale)

----------------------------------------------------------------------------
(* Properties of the attention bias *)

FullyMasked(r) ==
    \A j \in 1..Len(attention_bias[r]) : attention_bias[r][j] = FinfoMin

----------------------------------------------------------------------------
(* Properties of the sharded append across two runs *)

\* the caches of a second run that agrees with pre on the slice of shard
\* axis_index and holds any rows in the other shards
OtherRuns(pre, axis_index, rows) ==
    LET sp == sp_size(Len(pre))
        lo == axis_index * sp
    IN  {alt \in [1..Len(pre) -> rows \cup {pre[p] : p \in 1..Len(pre)}] :
            \A p \in (lo + 1)..(lo + sp) : alt[p] = pre[p]}

\* C18: the post-append slice of a shard is a function of that shard's
\* pre-append slice, the new token, the global cursor and the shard index
\* alone: a second run that agrees on these and differs in the data of the
\* other shards leaves shard i with the same slice.
C18_ShardLocality ==
    (IsAppend /\ call.path = "sharded") =>
        \A i \in 0..(NumShards - 1) :
            /\ \A alt \in OtherRuns(call.pre_key, i, {ZeroRow, KeyRow(1)}) :
                    ShardSlice(ShardedUpdate(alt, call.key, call.cur_index), i)
                        = ShardSlice(cached_key, i)
            /\ \A alt \in OtherRuns(call.pre_value, i, {ZeroRow, ValueRow(1)}) :
                    ShardSlice(ShardedUpdate(alt, call.value, call.cur_index), i)
                        = ShardSlice(cached_value, i)

\* the owning shard has written its row while the other shard holds data of
\* its own, which a second run may replace
C18_Witness ==
    /\ IsAppend
    /\ call.path = "sharded"
    /\ call.cur_index = ShardLen
    /\ cached_key[ShardLen + 1] = call.key[1]
    /\ call.pre_key[1] # ZeroRow
    /\ Cardinality(OtherRuns(call.pre_key, 1, {ZeroRow, KeyRow(1)})) > 1

----------------------------------------------------------------------------
(* Properties of FlashAttention across calls *)

\* this step leaves the last call in place or repeats it with the same
\* query, key, value and bias on the same instance
SameCallAgain ==
    /\ fa_call.op = "call"
    /\ fa_call'.op = "call"
    /\ \A f \in {"q_len", "kv_len", "num_q_heads", "num_kv_heads", "bias_heads"} :
            fa_call'[f] = fa_call[f]

SameOutcome ==
    /\ fa_ret'.error = fa_ret.error
    /\ fa_ret'.kernel = fa_ret.kernel
    /\ fa_ret'.log = fa_ret.log

\* C19 (as stated): FlashAttention calls are stateless given their inputs:
\* two calls with the same configuration and the same query, key, value and
\* bias select the same kernel and the same head-expansion path, and a call
\* changes no state of the object.
C19_StatelessGivenInputs ==
    [][/\ SameCallAgain => SameOutcome
       /\ fa_call'.op = "call" => attention' = attention]_vars

\* C19 (amended): two calls with the same configuration, the same query,
\* key, value and bias and the same value of the FORCE_MHA environment
\* variable select the same kernel and the same head-expansion path, and a
\* call changes no state of the object.
C19_StatelessGivenInputsAndEnvironment ==
    [][/\ (SameCallAgain /\ fa_call'.force_mha = fa_call.force_mha) => SameOutcome
       /\ fa_call'.op = "call" => attention' = attention]_vars

\* a grouped call on the Triton platform made after FORCE_MHA was set: the
\* environment now differs from the one the call before it ran under
C19_Witness ==
    /\ IsFlashCall
    /\ attention.platform = "triton"
    /\ fa_call.num_q_heads = 8
    /\ fa_call.num_kv_heads = 2
    /\ fa_call.force_mha
    /\ fa_ret.kernel = "triton_flash_mha_attn_2_gpu"

----------------------------------------------------------------------------
(* Properties of the compatibility table *)

Accepted == fa_ret.error = "none" /\ fa_ret.instance # NoInstance

\* C20 (as stated): the table accepts exactly GPU with Triton or Pallas, CPU
\* with JAX, and TPU with Pallas; every other (backend, platform) pair is
\* rejected.
C20_TableAsStated ==
    IsConstruction =>
        (Accepted <=>
            \/ RequestedBackend = "gpu" /\ RequestedPlatform \in {"triton", "pallas"}
            \/ RequestedBackend = "cpu" /\ RequestedPlatform = "jax"
            \/ RequestedBackend = "tpu" /\ RequestedPlatform = "pallas")

\* C20 (amended): the table accepts exactly GPU with Triton, Pallas or JAX,
\* CPU with JAX, and TPU with Pallas or JAX; every other pair (CPU with
\* Triton or Pallas, TPU with Triton, an unknown name) is rejected.
C20_TableWithReferenceKernel ==
    IsConstruction =>
        (Accepted <=>
            \/ RequestedBackend = "gpu" /\ RequestedPlatform \in {"triton", "pallas", "jax"}
            \/ RequestedBackend = "cpu" /\ RequestedPlatform = "jax"
            \/ RequestedBackend = "tpu" /\ RequestedPlatform \in {"pallas", "jax"})

C20_Witness ==
    /\ fa_call.op = "construct"
    /\ fa_call.backend = "tpu"
    /\ fa_call.platform = "jax"
    /\ Accepted
    /\ attention.backend = "tpu"
    /\ attention.platform = "jax"

----------------------------------------------------------------------------
(* Properties of SplashAttn *)

SplashCalled == splash_call.op = "forward"

\* C21: SplashAttn invoked on any backend other than TPU (native, GPU, CPU,
\* CUDA, ROCm) raises NotImplementedError and returns no output; no kernel
\* runs in its place.
C21_SplashOnlyOnTpu ==
    (SplashCalled /\ splash_call.method # "tpu") =>
        /\ splash_ret.error = "NotImplementedError"
        /\ splash_ret.kernel = None
        /\ splash_ret.block_sizes = NoBlocks
        /\ splash_ret.mask = <<>>

C21_Witness ==
    /\ SplashCalled
    /\ splash_call.method = "native"
    /\ splash_ret.error = "NotImplementedError"
    /\ splash_ret.kernel = None

\* the batch size of the mask the kernel receives
KernelMaskBatch == Len(splash_ret.mask)

\* C22 (as stated): for every pair of mask batch size and query batch size,
\* the mask handed to the Splash kernel has exactly the query's batch size.
C22_MaskBatchMatchesQuery ==
    (IsSplashCall /\ splash_call.mask_batch # 0) =>
        KernelMaskBatch = splash_call.q_batch

\* C22 (amended): a mask whose batch size differs from the query's is
\* repeated q_batch \div mask_batch times along the batch axis, each batch
\* element in place; the kernel's mask has exactly the query's batch size
\* when the mask's batch size divides the query's, and
\* mask_batch * (q_batch \div mask_batch) otherwise, which is not q_batch.
C22_MaskBatchMatchesWhenDivides ==
    (IsSplashCall /\ splash_call.mask_batch # 0) =>
        LET qb == splash_call.q_batch
            mb == splash_call.mask_batch
            reps == qb \div mb
        IN  /\ KernelMaskBatch = (IF mb = qb THEN qb ELSE mb * reps)
            /\ (qb % mb = 0) <=> (KernelMaskBatch = qb)
            /\ qb % mb = 0 =>
                    \A j \in 1..qb : splash_ret.mask[j] = ((j - 1) \div reps) + 1

C22_Witness ==
    /\ IsSplashCall
    /\ splash_call.mask_batch = 1
    /\ splash_call.q_batch = 3
    /\ splash_ret.mask = <<1, 1, 1>>

----------------------------------------------------------------------------
(* Properties of the functions of whole arrays *)

\* C23: repeat_kv_bsnh of an array of shape (batch, seq, n_kv_heads,
\* head_dim) and n_rep >= 1 returns an array of shape (batch, seq,
\* n_kv_heads * n_rep, head_dim); for n_rep = 1 the result equals the input.
C23_RepeatKvBsnhShape ==
    array_call.op = "repeat_kv_bsnh" =>
        LET shape == array_call.x.shape
        IN  /\ array_ret.error = "none"
            /\ array_ret.shape = [shape EXCEPT ![3] = @ * array_call.n_rep]
            /\ array_call.n_rep = 1 => array_ret = array_call.x

----------------------------------------------------------------------------
(* The sharded path against the non-sharded path *)

\* a single-token append to a float cache with the cursor inside the cache
SingleTokenInside ==
    /\ call.op = "append"
    /\ call.path \in {"sharded", "dense"}
    /\ ~config.quantize_kv_cache
    /\ call.n = 1
    /\ 0 <= call.cur_index
    /\ call.cur_index < Len(call.pre_key)
    /\ Len(call.pre_key) % NumShards = 0

\* C24: for a single-token append with 0 <= cursor < max_length and
\* max_length divisible by the shard count, the shard slices laid side by
\* side after the sharded append equal the cache of the non-sharded update,
\* and the merged key and value returned are equal.
C24_ShardedEqualsDense ==
    SingleTokenInside =>
        LET sharded_key == ShardedUpdate(call.pre_key, call.key, call.cur_index)
            sharded_value == ShardedUpdate(call.pre_value, call.value, call.cur_index)
            dense_key == dynamic_update_slice(call.pre_key, call.key, call.cur_index)
            dense_value == dynamic_update_slice(call.pre_value, call.value, call.cur_index)
        IN  /\ sharded_key = dense_key
            /\ sharded_value = dense_value
            /\ ret.key = dense_key /\ ret.value = dense_value
            /\ cached_key = sharded_key /\ cached_value = sharded_value

C24_Witness ==
    /\ SingleTokenInside
    /\ call.path = "sharded"
    /\ call.cur_index = sp_size(MaxLength) + 1
    /\ ret.key[call.cur_index + 1] = call.key[1]
    /\ ret.key[1] # ZeroRow
    /\ cached_key = dynamic_update_slice(call.pre_key, call.key, call.cur_index)

\* C25: for a single-token append the sharded path returns the same updated
\* attention mask as the non-sharded path: positions >= cursor + 1 are
\* marked invalid in the mask returned to the caller.
C25_ShardedMaskMatchesDense ==
    (SingleTokenInside /\ call.path = "sharded") =>
        /\ ret.mask = combine_masks(pad_mask(Len(call.pre_key), call.cur_index, 1),
                                    call.mask)
        /\ \A p \in 1..Len(ret.mask) : (p - 1) >= call.cur_index + 1 => ~ret.mask[p]

\* the cursors for which the write predicate of shard axis_index holds
OwnedRange(cap, axis_index) ==
    {c \in 0..(cap - 1) : ShardOwns(cap, c, axis_index)}

\* the shards whose write predicate holds for the cursor
Owners(cap, cur_index) ==
    {i \in 0..(NumShards - 1) : ShardOwns(cap, cur_index, i)}

\* C26: in the sharded append the ranges [i*sp_size, (i+1)*sp_size) owned by
\* the shards are pairwise disjoint and, when the shard count divides
\* cap, cover [0, cap); so for a cursor in [0, cap)
\* exactly one shard's write predicate holds and the new token is stored
\* exactly once.
C26_ExactlyOneShardWrites ==
    (SingleTokenInside /\ call.path = "sharded") =>
        LET cap == Len(call.pre_key)
            sp == sp_size(cap)
            written == {p \in 1..cap : cached_key[p] # call.pre_key[p]}
        IN  /\ \A i \in 0..(NumShards - 1) :
                    OwnedRange(cap, i) = (i * sp)..((i + 1) * sp - 1)
            /\ \A i, j \in 0..(NumShards - 1) :
                    i # j => OwnedRange(cap, i) \cap OwnedRange(cap, j) = {}
            /\ UNION {OwnedRange(cap, i) : i \in 0..(NumShards - 1)}
                    = 0..(cap - 1)
            /\ Owners(cap, call.cur_index) = {call.cur_index \div sp}
            /\ written \subseteq {call.cur_index + 1}
            /\ cached_key[call.cur_index + 1] = call.key[1]
            /\ cached_value[call.cur_index + 1] = call.value[1]

C26_Witness ==
    /\ SingleTokenInside
    /\ call.path = "sharded"
    /\ call.cur_index = sp_size(MaxLength)
    /\ Owners(MaxLength, call.cur_index) = {1}
    /\ cached_key[call.cur_index + 1] = call.key[1]
    /\ cached_key[call.cur_index] = call.pre_key[call.cur_index]

----------------------------------------------------------------------------
(* Re-encoding a decoded row *)

IsRequantized == requantized.qweight # <<>>

\* two encodings with the same payload and the same scale
SameEncoding(a, b) == a.qweight = b.qweight /\ RatEq(a.qscale, b.qscale)

\* C27: re-quantizing is idempotent: for every row x,
\* quantize(dequantize(quantize(x))) has the same payload and scale as
\* quantize(x).
C27_RequantizeIdempotent ==
    IsRequantized => SameEncoding(requantized, quantized)

\* C28: every payload value produced by quantize_8bit lies in [-127, 127]
\* (the clamp bound -128 is never produced), and an element whose magnitude
\* equals the row's absolute maximum, when that maximum is at least 1e-5, is
\* encoded as +127 or -127.
C28_PayloadSymmetric ==
    IsQuantized =>
        LET max_val == RowAbsMax(weight.x, RowLen)
        IN  /\ \A i \in 1..RowLen : quantized.qweight[i] \in (-QMax)..QMax
            /\ \A i \in 1..RowLen :
                    (Abs(weight.x[i]) = max_val /\ max_val >= MinMaxVal) =>
                        quantized.qweight[i] =
                            (IF weight.x[i] < 0 THEN -QMax ELSE QMax)

C28_Witness ==
    /\ IsQuantized
    /\ weight.x[1] = -1344
    /\ RowAbsMax(weight.x, RowLen) = 1344
    /\ quantized.qweight[1] = -QMax
    /\ \E i \in 1..RowLen : quantized.qweight[i] \notin {-QMax, QMax}

\* the numbers of an array of floats are all finite
AllFinite(x) == \A k \in 1..Prod(x.shape) : x.data[k].k = "fin"

\* C29: for every input tensor, groups of equal values (such as an all-zero
\* cache) included, quantize_kv_cache yields a finite non-zero scale, a
\* finite zero point and codes in [0, 255], and dequantize_kv_cache of that
\* result differs from the input by at most one quantization step (scale)
\* per element.
C29_KvCacheCodecWithinOneStep ==
    /\ array_call.op = "quantize_kv_cache" =>
            /\ AllFinite(array_ret.scale)
            /\ \A k \in 1..Prod(array_ret.scale.shape) : array_ret.scale.data[k].n # 0
            /\ AllFinite(array_ret.zero)
            /\ \A k \in 1..Prod(array_ret.qdata.shape) :
                    array_ret.qdata.data[k] \in UInt8Min..UInt8Max
    /\ array_call.op = "dequantize_kv_cache" =>
            /\ AllFinite(array_ret)
            /\ \A k \in 1..Prod(array_ret.shape) :
                    LET diff == ksub(array_ret.data[k], array_call.x.data[k])
                        step == At(array_call.enc.scale,
                                   [Unravel(k - 1, array_ret.shape) EXCEPT ![4] = 0])
                    IN  ksub(step, [diff EXCEPT !.n = Abs(@)]).n >= 0

----------------------------------------------------------------------------
(* Head grouping *)

\* C30: head grouping is consistent between bias expansion and key/value
\* expansion: with r = q_heads / kv_heads, after normalization query head j
\* is paired with key/value head j div r and, for a bias supplied with
\* kv_heads heads, with bias head j div r; the reference attention and
\* repeat_key_value use the same grouping.
C30_HeadGroupingConsistent ==
    (FlashKernelRan /\ Len(fa_ret.key) = fa_call.num_q_heads) =>
        LET q == fa_call.num_q_heads
            kv == fa_call.num_kv_heads
            bh == fa_call.bias_heads
            r == q \div kv
            ref == attn_refrence(q, kv, bh)
            rkv == repeat_key_value(Heads(kv), Heads(kv), r)
        IN  /\ ref.error = "none"
            /\ \A j \in 0..(q - 1) :
                    /\ fa_ret.key[j + 1] = (j \div r) + 1
                    /\ fa_ret.value[j + 1] = (j \div r) + 1
                    /\ ref.key[j + 1] = fa_ret.key[j + 1]
                    /\ rkv.key[j + 1] = fa_ret.key[j + 1]
                    /\ rkv.value[j + 1] = fa_ret.value[j + 1]
                    /\ bh = kv => fa_ret.bias[j + 1] = (j \div r) + 1
                    /\ bh # 0 => ref.bias[j + 1] = fa_ret.bias[j + 1]

C30_Witness ==
    /\ FlashKernelRan
    /\ fa_call.num_q_heads = 8
    /\ fa_call.num_kv_heads = 2
    /\ fa_call.bias_heads = 1
    /\ fa_ret.key = <<1, 1, 1, 1, 2, 2, 2, 2>>
    /\ fa_ret.bias = <<1, 1, 1, 1, 1, 1, 1, 1>>
    /\ attn_refrence(8, 2, 1).key = fa_ret.key

====
